---- MODULE Spec2Model ----
(***************************************************************************)
(* A model of the agents starter kit: the in-memory token cache            *)
(* (token_cache.py), the generic agent host (host_agent_server.py), the    *)
(* capability contract (agent_interface.py) and the orchestrator agent     *)
(* (agents/orchestrator.py).                                               *)
(*                                                                         *)
(* Python strings are sequences of pieces.  Identifiers (tenant and agent  *)
(* ids, cache keys) are sequences of single characters, so that f-string   *)
(* concatenation is sequence concatenation.  Message texts, responses and  *)
(* exception texts are sequences over small alphabets of pieces that are   *)
(* uniquely decodable, so equality of sequences is equality of strings.    *)
(* An Optional value is the record None or Some(v).                        *)
(*                                                                         *)
(* Four specifications share the variables:                                *)
(*   CacheSpec  the token cache driven by direct calls;                    *)
(*   StartSpec  host construction and start_server, startup hook and bind  *)
(*              included;                                                  *)
(*   Spec       the constructed host: handler calls and the startup hook,  *)
(*              which suspend at each await, and cleanup between them;     *)
(*   OrchSpec   the orchestrator: construction, then concurrently handled  *)
(*              process_user_message calls that suspend at each await.     *)
(***************************************************************************)
EXTENDS Integers, Sequences, FiniteSets, TLC

\* ------------------------------------------------------------------ bounds
MaxPuts == 3
MaxPad == 1
MaxCalls == 3
MaxCounted == 2

\* ------------------------------------------------------- Python values
None == [none |-> TRUE]
Some(v) == [none |-> FALSE, v |-> v]

\* Python's `x or default` on an Optional string: None and "" are both falsy.
OrDefault(x, default) == IF x.none \/ x.v = <<>> THEN default ELSE x.v

\* s contains t as a contiguous substring (Python's `t in s`).
Contains(s, t) ==
    \E i \in 0..(Len(s) - Len(t)) : SubSeq(s, i + 1, i + Len(t)) = t

\* --------------------------------------------------------------- state
VARIABLES
    agentic_token_cache,  \* token_cache._agentic_token_cache: key -> token
    lastPut,              \* history: (tenant, agent) -> Optional token of the latest put
    got,                  \* the latest get_cached_agentic_token call and its result
    nPuts,                \* number of cache_agentic_token calls made
    host,                 \* the GenericAgentHost object and the process around it
    agent_instance,       \* GenericAgentHost.agent_instance
    hist,                 \* history of the host: instances created, failures
    turns,                \* the handler calls (turns) in flight or over, per slot
    orch,                 \* the OrchestratorAgent object
    tasks,                \* the process_user_message calls in flight
    ohist                 \* history of the orchestrator

cacheVars == <<agentic_token_cache, lastPut, got, nPuts>>
hostVars == <<host, agent_instance, hist, turns>>
orchVars == <<orch, tasks, ohist>>
vars == <<agentic_token_cache, lastPut, got, nPuts, host, agent_instance, hist,
          turns, orch, tasks, ohist>>

\* ========================================================== token cache
Colon == ":"
LocalId == <<"l", "o", "c", "a", "l">>

\* Sample identifiers: plain ones and ones that hold the separator character.
TenantIds == {<<"a">>, <<"a", ":", "b">>}
AgentIds == {<<"c">>, <<"b", ":", "c">>}
Tokens == {"tok1", "tok2"}

\* key = f"{tenant_id}:{agent_id}"
CacheKey(tenant_id, agent_id) == tenant_id \o <<Colon>> \o agent_id

\* _agentic_token_cache[key] = token
DictSet(cache, key, token) ==
    [k \in (DOMAIN cache) \cup {key} |-> IF k = key THEN token ELSE cache[k]]

\* _agentic_token_cache.get(key)
DictGet(cache, key) == IF key \in DOMAIN cache THEN Some(cache[key]) ELSE None

CachePut(cache, tenant_id, agent_id, token) ==
    DictSet(cache, CacheKey(tenant_id, agent_id), token)

CacheGet(cache, tenant_id, agent_id) == DictGet(cache, CacheKey(tenant_id, agent_id))

\* The history of puts per (tenant, agent) pair, kept beside the cache.
RecordPut(h, tenant_id, agent_id, token) ==
    [p \in (DOMAIN h) \cup {<<tenant_id, agent_id>>} |->
        IF p = <<tenant_id, agent_id>> THEN token ELSE h[p]]

EmptyDict == [k \in {} |-> "tok1"]
NoGet == [called |-> FALSE, tenant |-> <<>>, agent |-> <<>>, result |-> None]

CacheInit ==
    /\ agentic_token_cache = EmptyDict
    /\ lastPut = EmptyDict
    /\ got = NoGet
    /\ nPuts = 0

cache_agentic_token(tenant_id, agent_id, token) ==
    /\ nPuts < MaxPuts
    /\ agentic_token_cache' = CachePut(agentic_token_cache, tenant_id, agent_id, token)
    /\ lastPut' = RecordPut(lastPut, tenant_id, agent_id, token)
    /\ nPuts' = nPuts + 1
    /\ got' = NoGet
    /\ UNCHANGED <<hostVars, orchVars>>

get_cached_agentic_token(tenant_id, agent_id) ==
    /\ got' = [called |-> TRUE, tenant |-> tenant_id, agent |-> agent_id,
               result |-> CacheGet(agentic_token_cache, tenant_id, agent_id)]
    /\ UNCHANGED <<agentic_token_cache, lastPut, nPuts, hostVars, orchVars>>

CachePutStep ==
    \E t \in TenantIds, a \in AgentIds, tok \in Tokens : cache_agentic_token(t, a, tok)

CacheGetStep ==
    \E t \in TenantIds, a \in AgentIds : get_cached_agentic_token(t, a)


\* ===================================================== capability contract
\* Candidate agent types handed to the host.  is_class is FALSE for an object
\* that is not a class; subclass says whether it derives from AgentInterface;
\* has_notification says whether instances define
\* handle_agent_notification_activity.
OrchestratorAgentClass ==
    [name |-> "OrchestratorAgent", is_class |-> TRUE, subclass |-> TRUE,
     has_notification |-> FALSE]
NotifyingAgentClass ==
    [name |-> "NotifyingAgent", is_class |-> TRUE, subclass |-> TRUE,
     has_notification |-> TRUE]
PlainClass ==
    [name |-> "PlainClass", is_class |-> TRUE, subclass |-> FALSE,
     has_notification |-> FALSE]
NotAClass ==
    [name |-> "not_a_class", is_class |-> FALSE, subclass |-> FALSE,
     has_notification |-> FALSE]

ValidAgentClasses == {OrchestratorAgentClass, NotifyingAgentClass}
AgentClasses == ValidAgentClasses \cup {PlainClass, NotAClass}

\* issubclass(agent_class, AgentInterface): raises TypeError on a non-class.
IsSubclass(agent_class) ==
    IF ~agent_class.is_class THEN [raised |-> "TypeError", value |-> FALSE]
    ELSE [raised |-> "none", value |-> agent_class.subclass]

MutCheckAgentInheritance(agent_class) == [raised |-> "none", value |-> TRUE]

check_agent_inheritance(agent_class) ==
    LET r == IsSubclass(agent_class)
    IN  IF r.raised # "none" THEN r
        ELSE IF ~r.value THEN [raised |-> "none", value |-> FALSE]
        ELSE [raised |-> "none", value |-> TRUE]

\* ============================================================== the host
DefaultPort == 3978

\* os.getenv("AUTH_HANDLER_NAME", "") or None
AuthHandlerEnv == {None, Some(<<>>), Some(<<"AGENTIC">>)}
AuthHandlerName(env) == IF env.none \/ env.v = <<>> THEN None ELSE Some(env.v)

\* CLIENT_ID and TENANT_ID of the environment: set or not.
IdentityEnv == [client_id : BOOLEAN, tenant_id : BOOLEAN]
\* PORT of the environment: unset, or a port number.
PortEnv == {None, Some(8080)}
\* What the connect probe finds on the desired port: nothing, a listener that
\* accepts the connection, or a socket that is bound but does not accept.
PortStates == {"free", "listening", "bound"}

\* handler_config: the auth handlers a route is registered with.
HandlerConfig(auth_handler_name) ==
    IF auth_handler_name.none THEN <<>> ELSE <<auth_handler_name.v>>

\* The routes _setup_handlers registers, in registration order: the two
\* help_handler routes and the notification route carry handler_config, the
\* generic message route carries no auth handler.
SetupHandlers(auth_handler_name) ==
    << [on |-> "conversationUpdate", select |-> <<"membersAdded">>,
        auth_handlers |-> HandlerConfig(auth_handler_name), handler |-> "help_handler"],
       [on |-> "message", select |-> <<"/help">>,
        auth_handlers |-> HandlerConfig(auth_handler_name), handler |-> "help_handler"],
       [on |-> "message", select |-> <<>>,
        auth_handlers |-> <<>>, handler |-> "on_message"],
       [on |-> "notification", select |-> <<>>,
        auth_handlers |-> HandlerConfig(auth_handler_name), handler |-> "on_notification"] >>

NoHost ==
    [built |-> FALSE, entry |-> "none", given |-> NotAClass, error |-> "none",
     configured |-> FALSE, agent_class |-> NotAClass, auth_handler_name |-> None, routes |-> <<>>,
     listener |-> FALSE, auth_configuration |-> FALSE,
     desired_port |-> 0, port_state |-> "none", banner_port |-> 0, listen_port |-> 0]

\* GenericAgentHost.__init__: the object it leaves behind, or the error raised.
HostInitResult(agent_class, auth_env) ==
    LET chk == check_agent_inheritance(agent_class)
    IN  IF chk.raised # "none" \/ ~chk.value
        THEN [NoHost EXCEPT !.given = agent_class, !.error = "TypeError"]
        ELSE [NoHost EXCEPT !.built = TRUE,
                            !.given = agent_class,
                            !.agent_class = agent_class,
                            !.auth_handler_name = AuthHandlerName(auth_env),
                            !.routes = SetupHandlers(AuthHandlerName(auth_env))]

\* create_auth_configuration: a configuration only when both ids are set.
CreateAuthConfiguration(ident) == ident.client_id /\ ident.tenant_id

\* The port start_server selects: int(environ.get("PORT", 3978)), plus one
\* when the connect probe succeeds.
DesiredPort(port_env) == IF port_env.none THEN DefaultPort ELSE port_env.v
SelectPort(port_env, probe) ==
    IF probe = "listening" THEN DesiredPort(port_env) + 1 ELSE DesiredPort(port_env)

\* instances counts the agent objects constructed, up to MaxCounted;
\* initializing says that an initialize() call is awaited.
NoHist == [instances |-> 0, init_failed |-> FALSE, initializing |-> FALSE]

MutConstructAgent(inst, ctor_ok) ==
    IF ~ctor_ok THEN [instance |-> inst, created |-> 0, raised |-> TRUE, awaiting |-> FALSE]
    ELSE [instance |-> Some([initialized |-> FALSE]), created |-> 1, raised |-> FALSE,
          awaiting |-> TRUE]

\* initialize_agent up to its await: when no instance is held, the agent
\* class is constructed and assigned, and initialize() is called.  ctor_ok
\* says whether the constructor returns rather than raises.
ConstructAgent(inst, ctor_ok) ==
    IF ~inst.none
    THEN [instance |-> inst, created |-> 0, raised |-> FALSE, awaiting |-> FALSE]
    ELSE IF ~ctor_ok
    THEN [instance |-> inst, created |-> 0, raised |-> TRUE, awaiting |-> FALSE]
    ELSE [instance |-> Some([initialized |-> FALSE]), created |-> 1, raised |-> FALSE,
          awaiting |-> TRUE]

\* initialize() is over: it returned, or it raised and initialize_agent
\* raises; the instance stays assigned either way.
InitializeDone(inst, init_ok) == Some([initialized |-> init_ok])

\* initialize_agent run to its end with nothing in between.
InitializeAgentResult(inst, ctor_ok, init_ok) ==
    LET c == ConstructAgent(inst, ctor_ok)
    IN  IF c.awaiting
        THEN [instance |-> InitializeDone(c.instance, init_ok), created |-> c.created,
              raised |-> ~init_ok]
        ELSE [instance |-> c.instance, created |-> c.created, raised |-> c.raised]

\* cleanup: the instance's cleanup() is awaited and its failure logged; the
\* instance stays.
CleanupResult(inst) == inst

Counted(n) == IF n > MaxCounted THEN MaxCounted ELSE n

\* start_server: the probe, the banner, then run_app(port=port).  run_app first
\* runs the startup hook, initialize_agent, and binds the port only when the
\* hook returned; held says whether another socket holds the selected port at
\* that moment.  listen_port is the port run_app is given; listener says
\* whether it came to listen.
StartServerResult(h, inst, auth_configuration, port_env, probe, ctor_ok, init_ok, held) ==
    LET port == SelectPort(port_env, probe)
        hook == InitializeAgentResult(inst, ctor_ok, init_ok)
    IN  [host |-> [h EXCEPT !.auth_configuration = auth_configuration,
                            !.desired_port = DesiredPort(port_env),
                            !.port_state = probe,
                            !.banner_port = port,
                            !.listen_port = port,
                            !.listener = ~hook.raised /\ ~held,
                            !.error = IF hook.raised THEN "StartupError"
                                      ELSE IF held THEN "OSError"
                                      ELSE "none"],
         hook |-> hook]

HistAfter(h, hook) ==
    [h EXCEPT !.instances = Counted(h.instances + hook.created),
              !.init_failed = h.init_failed \/ hook.raised]

\* ------------------------------------------------- activities and replies
Space == " "
HelpCommand == <<"/help">>
\* The text of an inbound message activity: absent, a word, or nothing or the
\* help command with up to MaxPad spaces before and after it.
TextCores == {<<>>, HelpCommand}
Pad(n) == [i \in 1..n |-> Space]
Texts ==
    {None, Some(<<"hi">>)}
        \cup {Some(Pad(n) \o c \o Pad(n)) : n \in 0..MaxPad, c \in TextCores}

\* str.strip(): leading and trailing whitespace removed.
RECURSIVE LStrip(_)
LStrip(s) == IF s # <<>> /\ Head(s) = Space THEN LStrip(Tail(s)) ELSE s
RECURSIVE RStrip(_)
RStrip(s) ==
    IF s # <<>> /\ s[Len(s)] = Space THEN RStrip(SubSeq(s, 1, Len(s) - 1)) ELSE s
Strip(s) == RStrip(LStrip(s))

\* The recipient of an inbound activity: tenant_id and agentic_app_id may be absent.
NoRecipient == [tenant_id |-> None, agentic_app_id |-> None]
Recipients ==
    { NoRecipient,
      [tenant_id |-> Some(<<"a">>), agentic_app_id |-> Some(<<"c">>)] }

NotAvailableText == <<"Sorry, the agent is not available.">>
NotSupportedText == <<"This agent doesn't support notification handling yet.">>
SendFailedText == <<"send failed">>
GreetingText(agent_class) ==
    <<"Hi there! I'm **", agent_class.name, "**, your AI assistant.\n\n",
      "How can I help you today?">>
ErrorText(e) == <<"Sorry, I encountered an error: ">> \o e
NotificationErrorText(e) ==
    <<"Sorry, I encountered an error processing the notification: ">> \o e

TextActivity(t) == [type |-> "message", body |-> t]
\* EmailResponse.create_email_response_activity(response)
EmailResponseActivity(t) == [type |-> "email_response", body |-> t]

\* What the agent's process_user_message (or notification method) does on a
\* call: return a string or raise.  What a token exchange does: hand out a
\* token or raise.
AgentOutcomes ==
    { [raised |-> FALSE, value |-> <<"answer">>],
      [raised |-> TRUE, value |-> <<"boom">>] }
ExchangeOutcomes ==
    { [raised |-> FALSE, token |-> "tok1"], [raised |-> TRUE, token |-> "tok1"] }
NotificationTypes == {"email", "other"}

Sent(activity, ok) == [activity |-> activity, ok |-> ok]

\* _setup_observability_token: "skipped" without an auth handler, "ok" when
\* the exchanged token was cached, "failed" when the exchange raised (logged).
SetupObservabilityToken(h, exchange) ==
    IF h.auth_handler_name.none THEN "skipped"
    ELSE IF exchange.raised THEN "failed"
    ELSE "ok"

\* The dispatch of the agents SDK (AgentApplication), which is not part of
\* the repository's source: a route registered for messages with a text is
\* taken by a message of exactly that text, and the first route, in
\* registration order, whose selector accepts the activity is the one that
\* handles it.
RouteMatches(route, kind, text) ==
    /\ route.on = kind
    /\ \/ route.select = <<>>
       \/ kind = "conversationUpdate"
       \/ (kind = "message" /\ OrDefault(text, <<>>) = route.select)

SelectRoute(routes, kind, text) ==
    LET idx == {i \in 1..Len(routes) : RouteMatches(routes[i], kind, text)}
    IN  routes[CHOOSE i \in idx : \A j \in idx : i <= j]

\* What the caller's sign-in can be when a route is selected: a route without
\* auth handlers asks for none.
SignIns(route) == IF route.auth_handlers = <<>> THEN {TRUE} ELSE BOOLEAN

\* The SDK calls the handler of a route registered with auth handlers only
\* when the sign-in for them is complete.
RouteRuns(route, signed_in) == route.auth_handlers = <<>> \/ signed_in

\* ---------------------------------------------------------------- turns
\* A handler call (a turn) runs from one await to the next; other turns and
\* the hooks run while it is suspended.  pc is the call it waits for:
\*   "exchange"     auth.exchange_token in _setup_observability_token
\*   "agent"        process_user_message or handle_agent_notification_activity
\*   "send"         the first context.send_activity of the turn
\*   "except_send"  the context.send_activity of the except clause
\* pending is the activity handed to the send_activity that is awaited, sends
\* the sends that are over, each with whether it succeeded.
TurnIds == {"t1", "t2"}
NoEvent ==
    [pc |-> "idle", handler |-> "none", text |-> None, ntype |-> "none",
     recipient |-> NoRecipient, instance |-> FALSE, pum |-> FALSE, notif |-> FALSE,
     response |-> None, pending |-> None, sends |-> <<>>, raised |-> FALSE]

\* The turn of an activity whose route the SDK does not run: no handler is
\* called and nothing is sent by the host.
NotRun(text, ntype) ==
    [NoEvent EXCEPT !.pc = "done", !.text = text, !.ntype = ntype]

\* `await context.send_activity(activity)` up to its suspension.
CallSend(ev, activity, pc) == [ev EXCEPT !.pending = Some(activity), !.pc = pc]

\* help_handler: one greeting, outside any try.
HelpHandler(h, text) ==
    CallSend([NoEvent EXCEPT !.handler = "help_handler", !.text = text],
             TextActivity(GreetingText(h.agent_class)), "send")

MutOnMessageGuard(user_message) == Strip(user_message) = HelpCommand

\* `not user_message.strip() or user_message.strip() == "/help"`
OnMessageSkips(user_message) ==
    Strip(user_message) = <<>> \/ Strip(user_message) = HelpCommand

\* on_message once _validate_agent_and_setup_context has returned the ids:
\* the text is looked at, and process_user_message is called unless it is
\* blank or the help command.
OnMessageProceeds(ev) ==
    IF OnMessageSkips(OrDefault(ev.text, <<>>))
    THEN [ev EXCEPT !.pc = "done"]
    ELSE [ev EXCEPT !.pc = "agent", !.pum = TRUE]

MutNotificationReply(ntype, response) == TextActivity(response)

\* What on_notification sends for the response of the agent's method: the
\* email response activity for an email notification, the response otherwise.
NotificationReply(ntype, response) ==
    IF ntype = "email" THEN EmailResponseActivity(response) ELSE TextActivity(response)

\* on_notification once _validate_agent_and_setup_context has returned the
\* ids: the hasattr check, then the call of the agent's method.
OnNotificationProceeds(h, ev) ==
    IF ~h.agent_class.has_notification
    THEN CallSend(ev, TextActivity(NotSupportedText), "send")
    ELSE [ev EXCEPT !.pc = "agent", !.notif = TRUE]

Proceeds(h, ev) ==
    IF ev.handler = "on_message" THEN OnMessageProceeds(ev)
    ELSE OnNotificationProceeds(h, ev)

\* _validate_agent_and_setup_context up to its first await: the ids are read
\* from the recipient; without an instance the "not available" text is sent;
\* with an auth handler the token exchange is called; otherwise it returns.
ValidateAgentAndSetupContext(h, inst, ev, recipient) ==
    LET e0 == [ev EXCEPT !.instance = ~inst.none]
    IN  IF inst.none THEN CallSend(e0, TextActivity(NotAvailableText), "send")
        ELSE IF ~h.auth_handler_name.none
        THEN [e0 EXCEPT !.pc = "exchange", !.recipient = recipient]
        ELSE Proceeds(h, e0)

\* on_message and on_notification from their start to their first await.
OnMessage(h, inst, text, recipient) ==
    ValidateAgentAndSetupContext(
        h, inst, [NoEvent EXCEPT !.handler = "on_message", !.text = text], recipient)
OnNotification(h, inst, ntype, recipient) ==
    ValidateAgentAndSetupContext(
        h, inst, [NoEvent EXCEPT !.handler = "on_notification", !.ntype = ntype], recipient)

\* The text of the except clause of the handler the turn runs.
HandlerErrorText(ev, e) ==
    IF ev.handler = "on_message" THEN ErrorText(e) ELSE NotificationErrorText(e)

\* exchange_token is over: the token is cached, or the failure is logged;
\* the handler goes on.  The ids are not used again.
AfterExchange(h, ev) == Proceeds(h, [ev EXCEPT !.recipient = NoRecipient])

\* The agent's method is over: its response is sent (as the email response
\* activity for an email notification), or its exception goes to the except
\* clause.
AfterAgent(ev, agent) ==
    IF agent.raised
    THEN CallSend(ev, TextActivity(HandlerErrorText(ev, agent.value)), "except_send")
    ELSE CallSend([ev EXCEPT !.response = Some(agent.value)],
                  IF ev.handler = "on_notification"
                  THEN NotificationReply(ev.ntype, agent.value)
                  ELSE TextActivity(agent.value),
                  "send")

\* send_activity is over.  A failed send inside the try of on_message or
\* on_notification goes to the except clause, which sends the error text; a
\* failed send of help_handler or of an except clause escapes the handler.
AfterSend(ev, ok) ==
    LET e1 == [ev EXCEPT !.sends = ev.sends \o <<Sent(ev.pending.v, ok)>>,
                         !.pending = None]
    IN  IF ok THEN [e1 EXCEPT !.pc = "done"]
        ELSE IF ev.pc = "send" /\ ev.handler # "help_handler"
        THEN CallSend(e1, TextActivity(HandlerErrorText(ev, SendFailedText)), "except_send")
        ELSE [e1 EXCEPT !.pc = "done", !.raised = TRUE]

\* The cache and the history of puts once a token exchange is over.
TurnCache(cache, h, ev, exchange) ==
    IF SetupObservabilityToken(h, exchange) = "ok"
    THEN CachePut(cache, OrDefault(ev.recipient.tenant_id, LocalId),
                  OrDefault(ev.recipient.agentic_app_id, LocalId), exchange.token)
    ELSE cache
TurnPuts(puts, h, ev, exchange) ==
    IF SetupObservabilityToken(h, exchange) = "ok"
    THEN RecordPut(puts, OrDefault(ev.recipient.tenant_id, LocalId),
                   OrDefault(ev.recipient.agentic_app_id, LocalId), exchange.token)
    ELSE puts

\* ------------------------------------------------------ starting the host
StartInit ==
    /\ host = NoHost
    /\ agent_instance = None
    /\ hist = NoHist
    /\ turns = [t \in TurnIds |-> NoEvent]

\* create_and_run_host(agent_class): check, configure observability, build
\* the host, build the auth configuration, start the server.
create_and_run_host(agent_class, auth_env, ident, port_env, probe, ctor_ok, init_ok, held) ==
    /\ host.entry = "none"
    /\ LET chk == check_agent_inheritance(agent_class)
       IN  IF chk.raised # "none" \/ ~chk.value
           THEN /\ host' = [NoHost EXCEPT !.entry = "create_and_run_host",
                                          !.given = agent_class,
                                          !.error = "TypeError"]
                /\ UNCHANGED <<agent_instance, hist>>
           ELSE LET h == HostInitResult(agent_class, auth_env)
                    started == StartServerResult(h, agent_instance,
                                                 CreateAuthConfiguration(ident),
                                                 port_env, probe, ctor_ok, init_ok, held)
                IN  /\ host' = [started.host EXCEPT !.entry = "create_and_run_host",
                                                   !.configured = TRUE]
                    /\ agent_instance' = started.hook.instance
                    /\ hist' = HistAfter(hist, started.hook)
    /\ UNCHANGED <<turns, cacheVars, orchVars>>

\* GenericAgentHost(agent_class) built directly.
NewGenericAgentHost(agent_class, auth_env) ==
    /\ host.entry = "none"
    /\ host' = [HostInitResult(agent_class, auth_env) EXCEPT !.entry = "GenericAgentHost"]
    /\ UNCHANGED <<agent_instance, hist, turns, cacheVars, orchVars>>

\* host.start_server(auth_configuration) on a host built directly, up to the
\* moment it listens or raises.
start_server(ident, port_env, probe, ctor_ok, init_ok, held) ==
    /\ host.built /\ ~host.listener /\ host.entry = "GenericAgentHost"
    /\ LET started == StartServerResult(host, agent_instance,
                                        CreateAuthConfiguration(ident),
                                        port_env, probe, ctor_ok, init_ok, held)
       IN  /\ host' = started.host
           /\ agent_instance' = started.hook.instance
           /\ hist' = HistAfter(hist, started.hook)
    /\ UNCHANGED <<turns, cacheVars, orchVars>>

\* run_app is interrupted: the shutdown hook, cleanup, runs and start_server
\* returns.
ServerStops ==
    /\ host.listener
    /\ host' = [host EXCEPT !.listener = FALSE]
    /\ agent_instance' = CleanupResult(agent_instance)
    /\ UNCHANGED <<hist, turns, cacheVars, orchVars>>

CreateAndRunHostStep ==
    \E c \in AgentClasses, e \in AuthHandlerEnv, i \in IdentityEnv,
       p \in PortEnv, s \in PortStates, k \in BOOLEAN, n \in BOOLEAN, b \in BOOLEAN :
        create_and_run_host(c, e, i, p, s, k, n, b)

NewHostStep ==
    \E c \in AgentClasses, e \in AuthHandlerEnv : NewGenericAgentHost(c, e)

StartServerStep ==
    \E i \in IdentityEnv, p \in PortEnv, s \in PortStates,
       k \in BOOLEAN, n \in BOOLEAN, b \in BOOLEAN : start_server(i, p, s, k, n, b)

\* ------------------------------------------- the host handling activities
\* A handler call that is over returns before anything else runs: its record
\* is kept for that one state.
Quiet == \A t \in TurnIds : turns[t].pc # "done"

HostInit ==
    /\ host \in {HostInitResult(c, e) : c \in ValidAgentClasses, e \in AuthHandlerEnv}
    /\ agent_instance = None
    /\ hist = NoHist
    /\ turns = [t \in TurnIds |-> NoEvent]

\* The startup hook up to its await of initialize(): the instance is assigned
\* and visible to the handlers while initialize() is awaited.
initialize_agent(ctor_ok) ==
    /\ host.built
    /\ Quiet
    /\ LET c == ConstructAgent(agent_instance, ctor_ok)
       IN  /\ agent_instance' = c.instance
           /\ hist' = [instances |-> Counted(hist.instances + c.created),
                       init_failed |-> hist.init_failed \/ c.raised,
                       initializing |-> hist.initializing \/ c.awaiting]
    /\ UNCHANGED <<host, turns, cacheVars, orchVars>>

\* initialize() is over: it returned, or it raised and initialize_agent raises.
InitializeReturns(init_ok) ==
    /\ hist.initializing
    /\ Quiet
    /\ agent_instance' = InitializeDone(agent_instance, init_ok)
    /\ hist' = [hist EXCEPT !.initializing = FALSE,
                            !.init_failed = hist.init_failed \/ ~init_ok]
    /\ UNCHANGED <<host, turns, cacheVars, orchVars>>

\* The shutdown hook.
cleanup ==
    /\ host.built
    /\ Quiet
    /\ agent_instance' = CleanupResult(agent_instance)
    /\ UNCHANGED <<host, hist, turns, cacheVars, orchVars>>

\* A turn starts in a slot that holds no handler call; the first such slot is
\* taken.
Free(t) == turns[t].pc = "idle"
Takes(t) == Quiet /\ Free(t) /\ (t = "t2" => ~Free("t1"))

\* An inbound message activity, dispatched to the first matching route.
MessageActivity(t, text, recipient, signed_in) ==
    /\ host.built
    /\ Takes(t)
    /\ LET route == SelectRoute(host.routes, "message", text)
       IN  /\ signed_in \in SignIns(route)
           /\ turns' = [turns EXCEPT ![t] =
                  IF ~RouteRuns(route, signed_in) THEN NotRun(text, "none")
                  ELSE IF route.handler = "help_handler" THEN HelpHandler(host, text)
                  ELSE OnMessage(host, agent_instance, text, recipient)]
    /\ UNCHANGED <<host, agent_instance, hist, cacheVars, orchVars>>

\* A conversation update (members added): the greeting.
ConversationUpdate(t, signed_in) ==
    /\ host.built
    /\ Takes(t)
    /\ LET route == SelectRoute(host.routes, "conversationUpdate", None)
       IN  /\ route.handler = "help_handler"
           /\ signed_in \in SignIns(route)
           /\ turns' = [turns EXCEPT ![t] =
                  IF ~RouteRuns(route, signed_in) THEN NotRun(None, "none")
                  ELSE HelpHandler(host, None)]
    /\ UNCHANGED <<host, agent_instance, hist, cacheVars, orchVars>>

\* An inbound agent notification.
NotificationActivity(t, ntype, recipient, signed_in) ==
    /\ host.built
    /\ Takes(t)
    /\ LET route == SelectRoute(host.routes, "notification", None)
       IN  /\ route.handler = "on_notification"
           /\ signed_in \in SignIns(route)
           /\ turns' = [turns EXCEPT ![t] =
                  IF ~RouteRuns(route, signed_in) THEN NotRun(None, ntype)
                  ELSE OnNotification(host, agent_instance, ntype, recipient)]
    /\ UNCHANGED <<host, agent_instance, hist, cacheVars, orchVars>>

\* The token exchange a turn waits for is over.
ExchangeReturns(t, exchange) ==
    /\ Quiet
    /\ turns[t].pc = "exchange"
    /\ agentic_token_cache' = TurnCache(agentic_token_cache, host, turns[t], exchange)
    /\ lastPut' = TurnPuts(lastPut, host, turns[t], exchange)
    /\ turns' = [turns EXCEPT ![t] = AfterExchange(host, turns[t])]
    /\ UNCHANGED <<host, agent_instance, hist, got, nPuts, orchVars>>

\* The agent method a turn waits for is over.
AgentReturns(t, agent) ==
    /\ Quiet
    /\ turns[t].pc = "agent"
    /\ turns' = [turns EXCEPT ![t] = AfterAgent(turns[t], agent)]
    /\ UNCHANGED <<host, agent_instance, hist, cacheVars, orchVars>>

\* The send_activity a turn waits for is over.
SendReturns(t, ok) ==
    /\ Quiet
    /\ turns[t].pc \in {"send", "except_send"}
    /\ turns' = [turns EXCEPT ![t] = AfterSend(turns[t], ok)]
    /\ UNCHANGED <<host, agent_instance, hist, cacheVars, orchVars>>

\* The handler call of a slot returns to the framework.
TurnReturns(t) ==
    /\ turns[t].pc = "done"
    /\ turns' = [turns EXCEPT ![t] = NoEvent]
    /\ UNCHANGED <<host, agent_instance, hist, cacheVars, orchVars>>

InitializeAgentStep == \E c \in BOOLEAN : initialize_agent(c)
InitializeReturnsStep == \E i \in BOOLEAN : InitializeReturns(i)
ReturnStep == \E t \in TurnIds : TurnReturns(t)
MessageStep ==
    \E t \in TurnIds, x \in Texts, r \in Recipients, s \in BOOLEAN :
        MessageActivity(t, x, r, s)
ConversationUpdateStep == \E t \in TurnIds, s \in BOOLEAN : ConversationUpdate(t, s)
NotificationStep ==
    \E t \in TurnIds, n \in NotificationTypes, r \in Recipients, s \in BOOLEAN :
        NotificationActivity(t, n, r, s)
ExchangeStep == \E t \in TurnIds, x \in ExchangeOutcomes : ExchangeReturns(t, x)
AgentStep == \E t \in TurnIds, a \in AgentOutcomes : AgentReturns(t, a)
SendStep == \E t \in TurnIds, ok \in BOOLEAN : SendReturns(t, ok)

\* ======================================================= the orchestrator
\* A required environment variable: unset, set to the empty string, or set.
EnvValues == {None, Some(<<>>), Some(<<"v">>)}
ModelEnv == [endpoint : EnvValues, deployment : EnvValues, api_version : EnvValues]

MutMissingVariable(env) ==
    IF env.endpoint.none THEN "AZURE_OPENAI_ENDPOINT"
    ELSE IF env.deployment.none THEN "AZURE_OPENAI_DEPLOYMENT"
    ELSE IF env.api_version.none THEN "AZURE_OPENAI_API_VERSION"
    ELSE "none"

\* _create_client's checks, in order: `if not endpoint`, `if not deployment`,
\* `if not api_version`.  The name of the variable the ValueError names.
MissingVariable(env) ==
    IF OrDefault(env.endpoint, <<>>) = <<>> THEN "AZURE_OPENAI_ENDPOINT"
    ELSE IF OrDefault(env.deployment, <<>>) = <<>> THEN "AZURE_OPENAI_DEPLOYMENT"
    ELSE IF OrDefault(env.api_version, <<>>) = <<>> THEN "AZURE_OPENAI_API_VERSION"
    ELSE "none"

NoOrch ==
    [attempted |-> FALSE, constructed |-> FALSE, error |-> "none", missing |-> "none",
     env |-> [endpoint |-> None, deployment |-> None, api_version |-> None],
     created |-> <<>>, agent |-> "unset", tool_service |-> FALSE,
     mcp_servers_initialized |-> FALSE]

\* OrchestratorAgent.__init__: instrumentation (best effort), the client, the
\* agents, the tool service (best effort), the flag.  `created` lists what was
\* created, in order; agent "local" is the Agent bound to the sub-agent tools.
OrchestratorInit(env, instr_ok, service_ok) ==
    LET c1 == IF instr_ok THEN <<"instrumentation">> ELSE <<>>
        missing == MissingVariable(env)
    IN  IF missing # "none"
        THEN [NoOrch EXCEPT !.attempted = TRUE, !.env = env, !.error = "ValueError",
                            !.missing = missing, !.created = c1]
        ELSE [NoOrch EXCEPT !.attempted = TRUE, !.env = env, !.constructed = TRUE,
                !.created = c1 \o <<"credential", "chat_client", "comedian", "agent">>
                               \o (IF service_ok THEN <<"tool_service">> ELSE <<>>),
                !.agent = "local",
                !.tool_service = service_ok,
                !.mcp_servers_initialized = FALSE]

\* ---- the result of agent.run and its text
StrVal(s) == [kind |-> "str", v |-> s]
ListVal(items) == [kind |-> "list", v |-> items]
NoneVal == [kind |-> "none", v |-> <<>>]

\* repr of a list of strings: ['a', 'b']
RECURSIVE ReprItems(_)
ReprItems(items) ==
    IF items = <<>> THEN <<>>
    ELSE <<"'", Head(items), "'">>
         \o (IF Len(items) > 1 THEN <<", ">> ELSE <<>>)
         \o ReprItems(Tail(items))

\* str(value)
Str(val) ==
    IF val.kind = "str" THEN val.v
    ELSE IF val.kind = "none" THEN <<"None">>
    ELSE <<"[">> \o ReprItems(val.v) \o <<"]">>

\* A result object: its truth value, the attributes it has (an attribute that
\* is missing is None here) and its own str().
Result(truthy, contents, text, content, plain) ==
    [truthy |-> truthy, contents |-> contents, text |-> text, content |-> content,
     plain |-> plain]

Results ==
    { Result(FALSE, None, None, None, <<"None">>),
      Result(FALSE, None, None, None, <<>>),
      Result(TRUE, None, Some(StrVal(<<"hello">>)), None, <<"<response>">>),
      Result(TRUE, None, Some(StrVal(<<>>)), None, <<"<response>">>),
      Result(TRUE, None, Some(NoneVal), None, <<"<response>">>),
      Result(TRUE, Some(ListVal(<<"hello">>)), Some(StrVal(<<"other">>)), None, <<"<message>">>),
      Result(TRUE, Some(ListVal(<<>>)), None, None, <<"<message>">>),
      Result(TRUE, None, None, Some(StrVal(<<"hello">>)), <<"<object>">>),
      Result(TRUE, None, None, Some(StrVal(<<>>)), <<"<object>">>),
      Result(TRUE, None, None, None, <<"hello">>) }

\* _extract_result
ExtractResult(result) ==
    IF ~result.truthy THEN <<>>
    ELSE IF ~result.contents.none THEN Str(result.contents.v)
    ELSE IF ~result.text.none THEN Str(result.text.v)
    ELSE IF ~result.content.none THEN Str(result.content.v)
    ELSE result.plain

FallbackText == <<"I couldn't process your request at this time.">>
OrchErrorText(e) == <<"Sorry, I encountered an ", "error", ": ">> \o e
NoneTypeErrorText == <<"'NoneType' object has no attribute 'run'">>

\* What agent.run does: return a result, raise an Exception with a text, or
\* raise what is no Exception (asyncio.CancelledError when the task is
\* cancelled while it waits); is_exception tells the two apart.
RunErrors == {<<"boom">>, <<"rate", " ", "limit">>}
CancelledErrorText == <<"CancelledError">>
RunOutcomes ==
    {[raised |-> FALSE, result |-> r, error |-> <<>>, is_exception |-> FALSE] : r \in Results}
    \cup {[raised |-> TRUE, result |-> Result(FALSE, None, None, None, <<>>), error |-> e,
           is_exception |-> TRUE] : e \in RunErrors}
    \cup {[raised |-> TRUE, result |-> Result(FALSE, None, None, None, <<>>),
           error |-> CancelledErrorText, is_exception |-> FALSE]}
NoRun ==
    [raised |-> FALSE, result |-> Result(FALSE, None, None, None, <<>>), error |-> <<>>,
     is_exception |-> FALSE]

\* `except Exception as e`: the error string is returned, nothing is raised.
ExceptClause(e) == [raised |-> FALSE, value |-> OrchErrorText(e)]

\* How process_user_message ends once agent.run is over: it returns the
\* extracted text or the fallback, or what the except clause makes of an
\* Exception; what is no Exception passes the except clause and is raised.
Reply(run) ==
    IF run.raised /\ ~run.is_exception THEN [raised |-> TRUE, value |-> run.error]
    ELSE IF run.raised THEN ExceptClause(run.error)
    ELSE IF ExtractResult(run.result) = <<>>
    THEN [raised |-> FALSE, value |-> FallbackText]
    ELSE [raised |-> FALSE, value |-> ExtractResult(run.result)]

\* What add_tool_servers_to_agent does: return an agent that also holds the
\* remote tools, return None, or raise.
RegistrationOutcomes == {"agent", "None", "raise"}

\* ---- process_user_message calls in flight
TaskIds == {"t1", "t2"}
IdleTask ==
    [pc |-> "idle", after_fail |-> FALSE, attempted |-> FALSE, agent_used |-> "unset",
     run |-> NoRun, returned |-> FALSE, escaped |-> FALSE, ret |-> <<>>]
NoOrchHist == [calls |-> 0, reg_calls |-> 0, first_reg |-> "none", first_task |-> "none"]

OrchInit ==
    /\ orch = NoOrch
    /\ tasks = [t \in TaskIds |-> IdleTask]
    /\ ohist = NoOrchHist

\* OrchestratorAgent()
ConstructOrchestrator(env, instr_ok, service_ok) ==
    /\ ~orch.attempted
    /\ orch' = OrchestratorInit(env, instr_ok, service_ok)
    /\ UNCHANGED <<tasks, ohist, cacheVars, hostVars>>

\* `await self.agent.run(message)` up to its suspension: the agent bound at
\* this moment is the one that runs; None has no run and the AttributeError
\* goes to the except clause.
CallRun(task, agent) ==
    IF agent = "None"
    THEN LET end == ExceptClause(NoneTypeErrorText)
         IN  [task EXCEPT !.pc = "done", !.agent_used = "None",
                          !.run = [NoRun EXCEPT !.raised = TRUE, !.error = NoneTypeErrorText,
                                               !.is_exception = TRUE],
                          !.returned = ~end.raised, !.escaped = end.raised,
                          !.ret = end.value]
    ELSE [task EXCEPT !.pc = "run", !.agent_used = agent]

\* setup_mcp_servers returns at once: `if self.mcp_servers_initialized: return`
SetupSkips(o) == o.mcp_servers_initialized

\* process_user_message from its start to its first suspension:
\* setup_mcp_servers either returns at once (flag set, or no tool service and
\* the flag is set now) and agent.run is called, or it calls
\* add_tool_servers_to_agent and waits for it.
BeginProcessUserMessage(t) ==
    /\ orch.constructed
    /\ tasks[t].pc \in {"idle", "done"}
    /\ ohist.calls < MaxCalls
    /\ LET fresh == [IdleTask EXCEPT !.after_fail = (ohist.first_reg = "failed")]
       IN  IF SetupSkips(orch)
           THEN /\ tasks' = [tasks EXCEPT ![t] = CallRun(fresh, orch.agent)]
                /\ orch' = orch
                /\ ohist' = [ohist EXCEPT !.calls = @ + 1]
           ELSE IF ~orch.tool_service
           THEN /\ tasks' = [tasks EXCEPT ![t] = CallRun(fresh, orch.agent)]
                /\ orch' = [orch EXCEPT !.mcp_servers_initialized = TRUE]
                /\ ohist' = [ohist EXCEPT !.calls = @ + 1]
           ELSE /\ tasks' = [tasks EXCEPT ![t] = [fresh EXCEPT !.pc = "reg",
                                                              !.attempted = TRUE]]
                /\ orch' = orch
                /\ ohist' = [ohist EXCEPT
                               !.calls = @ + 1,
                               !.reg_calls = @ + 1,
                               !.first_reg = IF ohist.reg_calls = 0 THEN "pending" ELSE @,
                               !.first_task = IF ohist.reg_calls = 0 THEN t ELSE @]
    /\ UNCHANGED <<cacheVars, hostVars>>

\* add_tool_servers_to_agent is over: its value is assigned to self.agent, or
\* its exception is logged; the flag is set either way; agent.run is called.
RegistrationReturns(t, outcome) ==
    /\ tasks[t].pc = "reg"
    /\ LET agent == IF outcome = "agent" THEN "mcp"
                    ELSE IF outcome = "None" THEN "None"
                    ELSE orch.agent
       IN  /\ orch' = [orch EXCEPT !.agent = agent, !.mcp_servers_initialized = TRUE]
           /\ tasks' = [tasks EXCEPT ![t] = CallRun(tasks[t], agent)]
    /\ ohist' = [ohist EXCEPT !.first_reg =
                    IF ohist.first_task = t /\ ohist.first_reg = "pending"
                    THEN (IF outcome = "raise" THEN "failed" ELSE "done")
                    ELSE @]
    /\ UNCHANGED <<cacheVars, hostVars>>

\* agent.run is over: process_user_message returns.
RunReturns(t, run) ==
    /\ tasks[t].pc = "run"
    /\ tasks' = [tasks EXCEPT ![t] = [@ EXCEPT !.pc = "done", !.run = run,
                                               !.returned = ~Reply(run).raised,
                                               !.escaped = Reply(run).raised,
                                               !.ret = Reply(run).value]]
    /\ UNCHANGED <<orch, ohist, cacheVars, hostVars>>

ConstructStep ==
    \E e \in ModelEnv, i \in BOOLEAN, s \in BOOLEAN : ConstructOrchestrator(e, i, s)
BeginStep == \E t \in TaskIds : BeginProcessUserMessage(t)
RegistrationStep ==
    \E t \in TaskIds, o \in RegistrationOutcomes : RegistrationReturns(t, o)
RunStep == \E t \in TaskIds, r \in RunOutcomes : RunReturns(t, r)

\* ------------------------------------------------ idle parts of the state
OrchIdle == OrchInit

OrchSpecInit ==
    /\ OrchInit
    /\ CacheInit
    /\ StartInit

OrchNext ==
    \/ ConstructStep
    \/ BeginStep
    \/ RegistrationStep
    \/ RunStep

OrchSpec == OrchSpecInit /\ [][OrchNext]_vars

Init ==
    /\ HostInit
    /\ CacheInit
    /\ OrchIdle

Next ==
    \/ InitializeAgentStep
    \/ InitializeReturnsStep
    \/ ReturnStep
    \/ MessageStep
    \/ ConversationUpdateStep
    \/ NotificationStep
    \/ ExchangeStep
    \/ AgentStep
    \/ SendStep
    \/ cleanup

Spec == Init /\ [][Next]_vars

StartSpecInit ==
    /\ StartInit
    /\ CacheInit
    /\ OrchIdle

StartNext ==
    \/ CreateAndRunHostStep
    \/ NewHostStep
    \/ StartServerStep
    \/ ServerStops

StartSpec == StartSpecInit /\ [][StartNext]_vars

CacheSpecInit ==
    /\ CacheInit
    /\ StartInit
    /\ OrchIdle

CacheNext ==
    \/ CachePutStep
    \/ CacheGetStep

CacheSpec == CacheSpecInit /\ [][CacheNext]_vars

\* ================================================================ claims
\* The text is absent, empty or whitespace only.
Blank(text) == Strip(OrDefault(text, <<>>)) = <<>>

\* The activities a turn has handed to send_activity so far, in order.
Attempted(ev) ==
    [i \in 1..Len(ev.sends) |-> ev.sends[i].activity]
        \o (IF ev.pending.none THEN <<>> ELSE <<ev.pending.v>>)

\* C1 (as stated): for a message whose text is absent, empty or whitespace
\* only, on_message neither invokes process_user_message nor sends anything,
\* whether or not the agent instance is present.
C1_BlankSendsNothing ==
    \A t \in TurnIds :
        (turns[t].handler = "on_message" /\ Blank(turns[t].text))
            => (~turns[t].pum /\ Attempted(turns[t]) = <<>>)

\* C1 (amended): for such a message on_message never invokes
\* process_user_message; with the agent instance present it sends nothing;
\* with the instance absent it sends the fixed "not available" text, and the
\* error text after it only when that send fails.
C1_BlankMessage ==
    \A t \in TurnIds :
        (turns[t].handler = "on_message" /\ Blank(turns[t].text))
            => /\ ~turns[t].pum
               /\ turns[t].instance => Attempted(turns[t]) = <<>>
               /\ ~turns[t].instance =>
                    /\ Len(Attempted(turns[t])) \in {1, 2}
                    /\ Attempted(turns[t])[1] = TextActivity(NotAvailableText)
                    /\ Len(Attempted(turns[t])) = 2 =>
                         /\ ~turns[t].sends[1].ok
                         /\ Attempted(turns[t])[2] =
                               TextActivity(ErrorText(SendFailedText))

C1_Witness ==
    \E t \in TurnIds :
        /\ turns[t].pc = "done"
        /\ turns[t].handler = "on_message"
        /\ turns[t].text = Some(<<Space, Space>>)
        /\ turns[t].instance
        /\ ~host.auth_handler_name.none
        /\ turns[t].sends = <<>>

\* C2: on_message never terminates by raising, whatever step of it fails.
C2_NeverRaises ==
    \A t \in TurnIds : turns[t].handler = "on_message" => ~turns[t].raised

\* C5: at most one agent object is ever constructed, and once the instance
\* is set it is never absent again.
C5_OneInstance ==
    /\ [](hist.instances <= 1)
    /\ [][~agent_instance.none => ~agent_instance'.none]_vars

C5_Witness ==
    /\ hist.instances = 1
    /\ hist.init_failed
    /\ agent_instance = Some([initialized |-> TRUE])
    /\ \E t \in TurnIds :
          /\ turns[t].pc = "done"
          /\ turns[t].handler = "on_notification"
          /\ turns[t].instance

\* C6: once initialization has failed, every message that on_message starts
\* to handle finds the instance absent, gets the "not available" text, and
\* process_user_message is not invoked.
C6_FailedInitNotAvailable ==
    [][\A t \in TurnIds :
          (/\ hist.init_failed
           /\ turns[t].pc = "idle"
           /\ turns'[t] # turns[t]
           /\ turns'[t].handler = "on_message")
              => /\ ~turns'[t].instance
                 /\ ~turns'[t].pum
                 /\ Attempted(turns'[t]) = <<TextActivity(NotAvailableText)>>]_vars

\* C7: given an agent type that is not a subclass of AgentInterface, both
\* entry points raise TypeError, and no host is built, no handler registered
\* and no listener started.
C7_TypeErrorNoHost ==
    (host.entry # "none" /\ ~(host.given.is_class /\ host.given.subclass))
        => /\ host.error = "TypeError"
           /\ ~host.built
           /\ host.routes = <<>>
           /\ ~host.listener
           /\ agent_instance.none

C7_Witness ==
    /\ host.entry = "create_and_run_host"
    /\ host.given = PlainClass
    /\ host.error = "TypeError"

Probed(result) ==
    IF ~result.contents.none THEN result.contents.v
    ELSE IF ~result.text.none THEN result.text.v
    ELSE IF ~result.content.none THEN result.content.v
    ELSE StrVal(result.plain)

\* The result holds no content: it is falsy, or what is read from it is the
\* empty string, an empty list or None.
NoContent(result) ==
    \/ ~result.truthy
    \/ Probed(result) \in {StrVal(<<>>), ListVal(<<>>), NoneVal}

\* C3: process_user_message always returns and never raises; when agent.run
\* raised, the string returned holds the word "error" and the exception's
\* text; when the result holds no content, it is the fallback string.
C3_NeverRaises ==
    \A t \in TaskIds :
        /\ ~tasks[t].escaped
        /\ tasks[t].pc = "done" => tasks[t].returned
        /\ (tasks[t].returned /\ tasks[t].run.raised)
              => /\ Contains(tasks[t].ret, <<"error">>)
                 /\ Contains(tasks[t].ret, tasks[t].run.error)
        /\ (tasks[t].returned /\ ~tasks[t].run.raised /\ NoContent(tasks[t].run.result))
              => tasks[t].ret = FallbackText

\* C4: once the first add_tool_servers_to_agent call has failed, every
\* process_user_message call begun afterwards skips the registration, runs
\* the model on the agent bound at construction and returns its response.
C4_FailedOnceSkipsLocal ==
    \A t \in TaskIds :
        (tasks[t].after_fail /\ tasks[t].pc # "idle")
            => /\ ~tasks[t].attempted
               /\ tasks[t].agent_used = "local"
               /\ (tasks[t].returned /\ ~tasks[t].run.raised)
                     => tasks[t].ret \in {ExtractResult(tasks[t].run.result), FallbackText}

\* C8: with AZURE_OPENAI_ENDPOINT, AZURE_OPENAI_DEPLOYMENT or
\* AZURE_OPENAI_API_VERSION unset or empty, construction raises ValueError
\* naming the first such variable, and neither the credential chain, the chat
\* client, the sub-agent tools, the agent nor the tool service was created.
Unset(x) == x.none \/ x.v = <<>>
C8_MissingConfigRaisesFirst ==
    (orch.attempted
       /\ (Unset(orch.env.endpoint) \/ Unset(orch.env.deployment)
              \/ Unset(orch.env.api_version)))
        => /\ orch.error = "ValueError"
           /\ ~orch.constructed
           /\ \A i \in 1..Len(orch.created) : orch.created[i] = "instrumentation"
           /\ orch.agent = "unset"
           /\ ~orch.tool_service
           /\ orch.missing =
                 (IF Unset(orch.env.endpoint) THEN "AZURE_OPENAI_ENDPOINT"
                  ELSE IF Unset(orch.env.deployment) THEN "AZURE_OPENAI_DEPLOYMENT"
                  ELSE "AZURE_OPENAI_API_VERSION")

C8_Witness ==
    /\ orch.attempted
    /\ orch.env = [endpoint |-> Some(<<"v">>), deployment |-> Some(<<"v">>),
                   api_version |-> Some(<<>>)]
    /\ orch.error = "ValueError"
    /\ orch.created = <<"instrumentation">>

\* C9: get_cached_agentic_token(tenant, agent) returns absent when no put was
\* made for that pair, and otherwise the token of the latest put for it.
C9_LastWriteWins ==
    got.called =>
        got.result = (IF <<got.tenant, got.agent>> \in DOMAIN lastPut
                      THEN Some(lastPut[<<got.tenant, got.agent>>])
                      ELSE None)

C12_PortSelection ==
    host.port_state # "none"
        => /\ host.banner_port = (IF host.port_state = "free"
                                  THEN host.desired_port
                                  ELSE host.desired_port + 1)
           /\ host.listen_port = host.banner_port

\* C13: over all interleavings of concurrently handled process_user_message
\* calls on one orchestrator, add_tool_servers_to_agent is called at most once.
C13_RegistersOnce == ohist.reg_calls <= 1

\* C14: a cache_agentic_token call for one (tenant, agent) pair never changes
\* what get_cached_agentic_token returns for a different pair: the value
\* returned for a pair changes only in a step that puts a token for that pair.
C14_PairsIsolated ==
    [][\A t2 \in TenantIds, a2 \in AgentIds :
          CacheGet(agentic_token_cache', t2, a2) # CacheGet(agentic_token_cache, t2, a2)
              => /\ <<t2, a2>> \in DOMAIN lastPut'
                 /\ \/ <<t2, a2>> \notin DOMAIN lastPut
                    \/ lastPut'[<<t2, a2>>] # lastPut[<<t2, a2>>]]_vars

====
